---- MODULE Spec2Model ----
(***************************************************************************)
(* A model of the discv4 discovery engine of indexsupply/x: the Kademlia   *)
(* routing table (src/discv4/kademlia.go) and the UDP protocol engine      *)
(* (src/unnamed/part_001: serve, the per-kind handlers, Ping, Pong).       *)
(*                                                                         *)
(* Time is counted in seconds.  The zero time.Time is 0; the clock starts  *)
(* at 1 and only moves forward.                                            *)
(*                                                                         *)
(* A NodeID is the set of the bit positions (0 = least significant,        *)
(* 255 = most significant) at which the 256-bit identifier has a 1.        *)
(***************************************************************************)
EXTENDS Integers, Sequences, FiniteSets, TLC

(***************************************************************************)
(* Program constants.                                                      *)
(***************************************************************************)
maxBucketSize == 16
addrByteSize == 256
bucketsCount == 20
minLogDistance == addrByteSize + 1 - bucketsCount

str1H == 127
str55L == 128
str55H == 183
strNH == 191
list55L == 192
list55H == 247
listNL == 248

hashSize == 32
sigSize == 65
kindSize == 1
headerSize == hashSize + sigSize + kindSize

Minute == 60
Hour == 3600
findNodeCount == 16
maxPeers == 16

(***************************************************************************)
(* Bounds of the model.                                                    *)
(***************************************************************************)
MaxVer == 2           \* distinct records (ENR values) per NodeID
MaxInserts == 3       \* Insert calls in a run of TableSpec
MaxFill == 17         \* Insert calls in a run of FillSpec
MaxCount == 3         \* largest count handed to FindClosest in TableSpec
MaxTicks == 2         \* clock steps in a run of Spec
MaxNeighbors == 2     \* node tuples in a Neighbors payload
MaxBondTicks == 3     \* clock steps (seconds) in a run of BondSpec
MaxStrLen == 300      \* longest byte string handed to Encode
MaxListLen == 2       \* most children of a list handed to Encode

(***************************************************************************)
(* Node identifiers and records.                                           *)
(***************************************************************************)
SelfId == {}
IdFar1 == {255}          \* log-distance 256 from self: bucket 19
IdFar2 == {255, 0}       \* log-distance 256 from self: bucket 19
IdMid == {240}           \* log-distance 241 from self: bucket 4
IdNear == {3}            \* log-distance 4 from self: below minLogDistance
NodeIds == {IdFar1, IdFar2, IdMid, IdNear}

ENR(id, ver) == [id |-> id, ver |-> ver]
NilENR == [id |-> {-1}, ver |-> 0]
selfNode == ENR(SelfId, 0)
TableNodes == {ENR(id, v) : id \in NodeIds, v \in 1..MaxVer}
FillNodes == {ENR(IdFar1, 1), ENR(IdFar2, 1)}

SetMax(S) == CHOOSE x \in S : \A y \in S : y <= x

\* enr.LogDistance: 256 - leading zero bits of (a XOR b); 0 for equal ids.
LogDistanceId(a, b) ==
    LET x == (a \ b) \cup (b \ a)
    IN  IF x = {} THEN 0 ELSE SetMax(x) + 1

LogDistance(m, n) == LogDistanceId(m.id, n.id)

NodeAddrHex(node) == node.id

(***************************************************************************)
(* kBucket: the LRU list, front first, and the lookup map.  A Go map is    *)
(* either nil or a set of keys; the element a key points at is the list    *)
(* element holding the node with that key.                                 *)
(***************************************************************************)
Buckets == 0..(bucketsCount - 1)

NilMap == [isNil |-> TRUE, keys |-> {}]
bucketEntry(node, t) == [node |-> node, lastSeen |-> t]

\* A zero kBucket whose list alone is initialised.
newBucket == [lru |-> <<>>, entriesMap |-> NilMap]

newKademliaTable == [b \in Buckets |-> newBucket]

\* el, ok := bucket.entriesMap[key]: reading a nil map finds nothing.
MapHas(m, key) == (~m.isNil) /\ key \in m.keys

SeqRemoveAt(s, i) == SubSeq(s, 1, i - 1) \o SubSeq(s, i + 1, Len(s))

IndexOfKey(l, key) ==
    CHOOSE i \in 1..Len(l) :
        /\ NodeAddrHex(l[i].node) = key
        /\ \A j \in 1..(i - 1) : NodeAddrHex(l[j].node) # key

nodes(bucket) == [i \in 1..Len(bucket.lru) |-> bucket.lru[i].node]

\* kBucket.store: the result carries whether the call panicked; a panic
\* leaves the bucket as the statements before it left it.
store(bucket, node, t) ==
    LET key == NodeAddrHex(node) IN
    IF MapHas(bucket.entriesMap, key)
    THEN LET i == IndexOfKey(bucket.lru, key) IN
         [lru |-> <<bucketEntry(node, t)>> \o SeqRemoveAt(bucket.lru, i),
          entriesMap |-> bucket.entriesMap,
          panic |-> FALSE]
    ELSE LET pushed == <<bucketEntry(node, t)>> \o bucket.lru IN
         IF bucket.entriesMap.isNil
         THEN \* assignment to entry in nil map
              [lru |-> pushed, entriesMap |-> bucket.entriesMap, panic |-> TRUE]
         ELSE LET put == [isNil |-> FALSE,
                          keys |-> bucket.entriesMap.keys \cup {key}] IN
              IF Len(pushed) > maxBucketSize
              THEN LET last == pushed[Len(pushed)] IN
                   [lru |-> SubSeq(pushed, 1, Len(pushed) - 1),
                    entriesMap |-> [put EXCEPT !.keys =
                                       @ \ {NodeAddrHex(last.node)}],
                    panic |-> FALSE]
              ELSE [lru |-> pushed, entriesMap |-> put, panic |-> FALSE]

BucketIndex(node) ==
    LET distance == LogDistance(selfNode, node) IN
    (IF distance < minLogDistance THEN minLogDistance ELSE distance)
        - minLogDistance

\* kademliaTable.Insert: the table after the call and whether it panicked.
Insert(table, node, t) ==
    LET b == BucketIndex(node)
        r == store(table[b], node, t)
    IN  [table |-> [table EXCEPT ![b] = [lru |-> r.lru,
                                         entriesMap |-> r.entriesMap]],
         panic |-> r.panic]

\* Insert for a table whose selfNode is self.
BucketIndexOf(self, node) ==
    LET distance == LogDistance(self, node) IN
    (IF distance < minLogDistance THEN minLogDistance ELSE distance)
        - minLogDistance

InsertOf(self, table, node, t) ==
    LET b == BucketIndexOf(self, node)
        r == store(table[b], node, t)
    IN  [table |-> [table EXCEPT ![b] = [lru |-> r.lru,
                                         entriesMap |-> r.entriesMap]],
         panic |-> r.panic]

(***************************************************************************)
(* FindClosest.                                                            *)
(***************************************************************************)
RECURSIVE Gather(_, _)
Gather(table, b) ==
    IF b >= bucketsCount THEN <<>>
    ELSE nodes(table[b]) \o Gather(table, b + 1)

Less(target, m, n) == LogDistance(m, target) < LogDistance(n, target)

\* insert x into the sorted sequence s, behind the elements not greater
RECURSIVE SortedInsert(_, _, _)
SortedInsert(target, s, x) ==
    IF s = <<>> THEN <<x>>
    ELSE IF Less(target, x, s[1]) THEN <<x>> \o s
         ELSE <<s[1]>> \o SortedInsert(target, Tail(s), x)

RECURSIVE SortNodes(_, _)
SortNodes(target, s) ==
    IF s = <<>> THEN <<>>
    ELSE SortedInsert(target, SortNodes(target, SubSeq(s, 1, Len(s) - 1)),
                      s[Len(s)])

\* s.nodes[:count]: the outcomes of the slice expression.  A count above
\* the capacity panics; a count above the length but within the capacity
\* yields the elements followed by nil pointers.  An empty gather list has
\* capacity 0.
FindClosestOutcomes(table, target, count) ==
    LET sorted == SortNodes(target, Gather(table, 0))
        n == Len(sorted)
    IN  IF count <= n
        THEN {[result |-> SubSeq(sorted, 1, count), panic |-> FALSE]}
        ELSE {[result |-> <<>>, panic |-> TRUE]}
             \cup (IF n = 0 THEN {}
                   ELSE {[result |-> sorted \o [i \in 1..(count - n) |-> NilENR],
                          panic |-> FALSE]})

(***************************************************************************)
(* rlp: Item, Encode and Decode.  A byte is 0..255 and byte arithmetic     *)
(* wraps.  An Item carries D and L, each nil or set.  A slice is the       *)
(* backing array from its first element to its capacity and its length.    *)
(***************************************************************************)
Byte(x) == x % 256

Bytes(d) == [D |-> d, Dset |-> TRUE, L |-> <<>>, Lset |-> FALSE]
List(l) == [D |-> <<>>, Dset |-> FALSE, L |-> l, Lset |-> TRUE]
NilItem == [D |-> <<>>, Dset |-> FALSE, L |-> <<>>, Lset |-> FALSE]

\* binary.PutUvarint: 7 bits a byte, least significant group first, the
\* top bit set on every byte but the last.
RECURSIVE PutUvarint(_)
PutUvarint(x) ==
    IF x < 128 THEN <<x>>
    ELSE <<(x % 128) + 128>> \o PutUvarint(x \div 128)

\* binary.Uvarint: the value, 0 if buf ends before the last byte.
RECURSIVE UvarintFrom(_, _, _, _)
UvarintFrom(buf, i, weight, acc) ==
    IF i > Len(buf) THEN 0
    ELSE IF buf[i] < 128 THEN acc + buf[i] * weight
    ELSE UvarintFrom(buf, i + 1, weight * 128, acc + (buf[i] - 128) * weight)

Uvarint(buf) == UvarintFrom(buf, 1, 1, 0)

encodeLength(t, l) ==
    LET buf == PutUvarint(l) IN <<Byte(t + Len(buf))>> \o buf

RECURSIVE Encode(_)
RECURSIVE EncodeAll(_)
EncodeAll(l) ==
    IF l = <<>> THEN <<>> ELSE Encode(Head(l)) \o EncodeAll(Tail(l))

Encode(input) ==
    IF input.Dset
    THEN LET n == Len(input.D) IN
         IF n = 1 /\ input.D[1] <= str1H THEN input.D
         ELSE IF n <= 55 THEN <<Byte(str55L + n)>> \o input.D
         ELSE encodeLength(str55H, n) \o input.D
    ELSE LET out == EncodeAll(input.L) IN
         IF Len(out) <= 55 THEN <<Byte(list55L + Len(out))>> \o out
         ELSE encodeLength(list55H, Len(out)) \o out

\* Slices.  s[a:b] panics unless a <= b <= cap(s); s[j] unless j < len(s).
MkSlice(arr, n) == [arr |-> arr, len |-> n]
SliceOf(bytes) == MkSlice(bytes, Len(bytes))
Cap(s) == Len(s.arr)
At(s, j) == s.arr[j + 1]
SliceOk(s, a, b) == a <= b /\ b <= Cap(s)
Slice(s, a, b) == MkSlice(SubSeq(s.arr, a + 1, Cap(s)), b - a)
Contents(s) == SubSeq(s.arr, 1, s.len)

\* decodeLength reading the length as a big-endian integer.
RECURSIVE BigEndianValue(_)
BigEndianValue(buf) ==
    IF buf = <<>> THEN 0
    ELSE BigEndianValue(SubSeq(buf, 1, Len(buf) - 1)) * 256 + buf[Len(buf)]

decodeLength_BigEndian(t, input) ==
    IF input.len = 0 THEN [n |-> 0, panic |-> TRUE]
    ELSE LET n == Byte(At(input, 0) - t) IN
         IF ~SliceOk(input, 1, n + 1) THEN [n |-> 0, panic |-> TRUE]
         ELSE [n |-> n + BigEndianValue(Contents(Slice(input, 1, n + 1))),
               panic |-> FALSE]

\* decodeLength: the result and whether input[0] or input[1 : n+1] panicked.
decodeLength(t, input) ==
    IF input.len = 0 THEN [n |-> 0, panic |-> TRUE]
    ELSE LET n == Byte(At(input, 0) - t) IN
         IF ~SliceOk(input, 1, n + 1) THEN [n |-> 0, panic |-> TRUE]
         ELSE [n |-> n + Uvarint(Contents(Slice(input, 1, n + 1))),
               panic |-> FALSE]

Panic == [item |-> NilItem, panic |-> TRUE]

\* The size n of the child whose header stands at input[i].
ChildSize(input, i) ==
    LET h == At(input, i) IN
    IF h <= str1H THEN [n |-> 1, panic |-> FALSE]
    ELSE IF h <= str55H THEN [n |-> 1 + (h - str55L), panic |-> FALSE]
    ELSE IF h <= strNH
    THEN LET r == decodeLength(str55H, Slice(input, i, input.len)) IN
         [n |-> 1 + r.n, panic |-> r.panic]
    ELSE IF h <= list55H THEN [n |-> 1 + (h - list55L), panic |-> FALSE]
    ELSE LET r == decodeLength(list55H, Slice(input, i, input.len)) IN
         [n |-> 1 + r.n, panic |-> r.panic]

RECURSIVE Decode(_)
RECURSIVE DecodeChildren(_, _, _)

\* The loop of Decode's list case from cursor i on, the children decoded
\* so far in acc.
DecodeChildren(input, i, acc) ==
    IF i >= input.len THEN [item |-> List(acc), panic |-> FALSE]
    ELSE LET c == ChildSize(input, i) IN
         IF c.panic \/ ~SliceOk(input, i, i + c.n) THEN Panic
         ELSE LET child == Decode(Slice(input, i, i + c.n)) IN
              IF child.panic THEN Panic
              ELSE DecodeChildren(input, i + c.n, Append(acc, child.item))

Decode(input) ==
    IF input.len = 0 THEN Panic
    ELSE LET h == At(input, 0) IN
    IF h <= str1H THEN [item |-> Bytes(<<h>>), panic |-> FALSE]
    ELSE IF h <= str55H
    THEN LET n == Byte(h - str1H) IN
         IF ~SliceOk(input, 1, n) THEN Panic
         ELSE [item |-> Bytes(Contents(Slice(input, 1, n))), panic |-> FALSE]
    ELSE IF h <= strNH
    THEN LET i == 1 + Byte(h - str55H)
             r == decodeLength(str55H, input)
             n == 1 + r.n
         IN  IF r.panic \/ ~SliceOk(input, i, n) THEN Panic
             ELSE [item |-> Bytes(Contents(Slice(input, i, n))),
                   panic |-> FALSE]
    ELSE DecodeChildren(input,
                        IF h >= listNL THEN 1 + Byte(h - list55H) ELSE 1,
                        <<>>)

(***************************************************************************)
(* The discovery engine (process).                                         *)
(***************************************************************************)
PeerIds == {IdFar1}
Ips == {"10.0.0.1", "10.0.0.2"}
Ports == {30303, 30304}
selfAddr == [ip |-> "10.0.0.9", port |-> 30303]

\* The hash of a packet is a function of its bytes.  An outbound Ping's
\* bytes are fixed by the signer (always this node), the destination
\* address and the expiration.
ZeroHash == [ip |-> "", port |-> 0, exp |-> 0]
BogusHash == [ip |-> "", port |-> 0, exp |-> 1]
InboundHash == [ip |-> "", port |-> 0, exp |-> 2]
PingHash(dest, t) == [ip |-> dest.Ip, port |-> dest.UdpPort, exp |-> t + Hour]

\* A fresh enr.Record: every timestamp zero, the hash all zero bytes.
Record(id, ip, port) ==
    [id |-> id, Ip |-> ip, UdpPort |-> port,
     SentPing |-> 0, SentPingHash |-> ZeroHash,
     ReceivedPing |-> 0, ReceivedPong |-> 0]

UDPAddr(rec) == [ip |-> rec.Ip, port |-> rec.UdpPort]
IsZero(t) == t = 0

\* time.Since: the zero time lies further back than any Duration can
\* express, and the difference saturates far above an hour.
Since(t0, t) == IF IsZero(t0) THEN 1000 * Hour ELSE t - t0

Packet(kind, to, hash) == [kind |-> kind, to |-> to, hash |-> hash]

MapPut(ps, rec) ==
    [id \in DOMAIN ps \cup {rec.id} |-> IF id = rec.id THEN rec ELSE ps[id]]

\* The record as the routing table sees it.
NodeOf(rec) == ENR(rec.id, 1)

(***************************************************************************)
(* process.Ping, whole under writeMut: the peer map and the packets        *)
(* written.  wok: conn.WriteTo succeeded.                                  *)
(***************************************************************************)
\* PingSkips with the window of the Pong correlation.
PingSkips_MinuteWindow(ps, dest, t) ==
    dest.id \in DOMAIN ps /\ Since(ps[dest.id].SentPing, t) < Minute

PingSkips(ps, dest, t) ==
    dest.id \in DOMAIN ps /\ Since(ps[dest.id].SentPing, t) < Hour

Ping(ps, dest, t, wok) ==
    IF PingSkips(ps, dest, t)
    THEN [peers |-> ps, sent |-> <<>>, err |-> ""]
    ELSE IF ~wok
    THEN [peers |-> ps, sent |-> <<>>, err |-> "write"]
    ELSE LET h == PingHash(dest, t) IN
         [peers |-> MapPut(ps, [dest EXCEPT !.SentPing = t,
                                            !.SentPingHash = h]),
          sent |-> <<Packet(1, UDPAddr(dest), h)>>,
          err |-> ""]

(***************************************************************************)
(* serve: the checks made before the dispatch on the packet kind.          *)
(***************************************************************************)
\* FramingError without the comparison of the hash prefix.
FramingError_NoHash(d) ==
    IF d.len <= headerSize THEN "discv4 packet too small"
    ELSE IF ~d.sigOk THEN "unable to extract pubkey from packet"
    ELSE ""

FramingError(d) ==
    IF d.len <= headerSize THEN "discv4 packet too small"
    ELSE IF ~d.hashOk THEN "packet contains invalid hash"
    ELSE IF ~d.sigOk THEN "unable to extract pubkey from packet"
    ELSE ""

\* rlp.Decode of the payload fails on a malformed payload.
DecodeError(d) == IF d.rlpOk THEN "" ELSE "rlp: malformed payload"

\* PingFromError without the comparison of the ports.
PingFromError_NoPort(d) ==
    IF d.fromIp = "malformed" THEN "malformed ping from data"
    ELSE IF d.fromIp # d.src.ip THEN "packet ip address doesn't match udp"
    ELSE ""

\* handlePing's checks of the from field against the datagram's source.
PingFromError(d) ==
    IF d.fromIp = "malformed" THEN "malformed ping from data"
    ELSE IF d.fromIp # d.src.ip THEN "packet ip address doesn't match udp"
    ELSE IF d.fromPort # d.src.port
    THEN "mismatch ping from-port with udp packet"
    ELSE ""

\* PongError without the comparison of the hashes.
PongError_NoHash(ps, d, t) ==
    IF d.from \notin DOMAIN ps THEN "missing peer"
    ELSE IF Since(ps[d.from].SentPing, t) > Minute THEN "expired ping hash"
    ELSE ""

\* PongError with the window of the Ping rate limit.
PongError_HourWindow(ps, d, t) ==
    IF d.from \notin DOMAIN ps THEN "missing peer"
    ELSE IF ps[d.from].SentPingHash # d.pingHash THEN "invalid ping hash"
    ELSE IF Since(ps[d.from].SentPing, t) > Hour THEN "expired ping hash"
    ELSE ""

\* handlePong's switch over the stored peer.
PongError(ps, d, t) ==
    IF d.from \notin DOMAIN ps THEN "missing peer"
    ELSE IF ps[d.from].SentPingHash # d.pingHash THEN "invalid ping hash"
    ELSE IF Since(ps[d.from].SentPing, t) > Minute THEN "expired ping hash"
    ELSE ""

\* if !peer.ReceivedPing.IsZero() && !peer.ReceivedPong.IsZero()
Bonded(rec) == ~IsZero(rec.ReceivedPing) /\ ~IsZero(rec.ReceivedPong)

Addr1 == [ip |-> "10.0.0.1", port |-> 30303]
SrcAddrs == {Addr1}

Framings ==
    [len : {headerSize, headerSize + 1}, hashOk : BOOLEAN, sigOk : BOOLEAN]

Datagram(f, kind, from, src, rlpOk) ==
    [len |-> f.len, hashOk |-> f.hashOk, sigOk |-> f.sigOk, kind |-> kind,
     from |-> from, src |-> src, rlpOk |-> rlpOk,
     fromIp |-> "", fromPort |-> 0, pingHash |-> ZeroHash, recs |-> <<>>,
     recsOk |-> TRUE, target |-> SelfId, expiration |-> 0]

\* A datagram that passes serve's checks of length, hash and signature.
Framed == [len |-> headerSize + 1, hashOk |-> TRUE, sigOk |-> TRUE]

\* The datagrams of a kind: one whose payload is no RLP, one for every
\* outcome of serve's checks of length, hash and signature, and a decodable
\* one of every sender and source address.  A datagram of headerSize bytes
\* has an empty payload.
Malformed(kind) == Datagram(Framed, kind, IdFar1, Addr1, FALSE)

FramingCases(kind) ==
    {Datagram(f, kind, IdFar1, Addr1, f.len > headerSize) : f \in Framings}

Decodable(kind) ==
    {Datagram(Framed, kind, from, src, TRUE) :
        from \in PeerIds, src \in SrcAddrs}

PingDatagrams ==
    {Malformed(1)} \cup
    {[d EXCEPT !.fromIp = d.src.ip, !.fromPort = d.src.port] :
        d \in FramingCases(1)} \cup
    {[d EXCEPT !.fromIp = fromIp, !.fromPort = fromPort] :
        d \in Decodable(1), fromIp \in Ips \cup {"malformed"},
        fromPort \in Ports}

FindNodeDatagrams ==
    {Malformed(3)} \cup FramingCases(3) \cup
    {[d EXCEPT !.target = target] :
        d \in Decodable(3), target \in {SelfId, IdMid}}

NeighborRecs == {Record(id, Addr1.ip, Addr1.port) : id \in PeerIds \cup {SelfId}}

NeighborLists ==
    UNION {[1..n -> NeighborRecs] : n \in 0..MaxNeighbors}

NeighborsDatagrams ==
    {Malformed(4)} \cup
    {[d EXCEPT !.recs = <<Record(IdFar1, Addr1.ip, Addr1.port)>>] :
        d \in FramingCases(4)} \cup
    {[d EXCEPT !.recs = recs, !.recsOk = recsOk] :
        d \in Decodable(4), recs \in NeighborLists, recsOk \in BOOLEAN}

ENRRequestDatagrams(t) ==
    {Malformed(5)} \cup
    {[d EXCEPT !.expiration = t] : d \in FramingCases(5)} \cup
    {[d EXCEPT !.expiration = exp] :
        d \in Decodable(5), exp \in {t - 1, t, t + 1}}

NoDatagram == Datagram([len |-> 0, hashOk |-> FALSE, sigOk |-> FALSE], 0,
                       {-1}, [ip |-> "", port |-> 0], FALSE)

(***************************************************************************)
(* State.                                                                  *)
(***************************************************************************)
VARIABLES
    buckets,     \* kademliaTable.buckets
    peers,       \* process.peers
    now,         \* the clock
    ticks,       \* clock steps taken
    pc,          \* where the serve goroutine stands
    pend,        \* the serve goroutine's locals between two steps
    panicked,    \* a run-time panic: of the last table call (TableSpec,
                 \* FillSpec), of the process (Spec)
    calls,       \* table calls made so far (TableSpec, FillSpec)
    ev,          \* the last operation: its arguments and its result
    engines,     \* two engines on one network: the state of each (BondSpec)
    net,         \* the datagrams in flight between them (BondSpec)
    conn,        \* process.conn, the UDP socket: "open" or "closed"
    rlp,         \* the last call of the codec: its input and its result
    mu,          \* process.writeMut: the goroutine holding it, or "none"
    tpc,         \* where each goroutine stands (MutexSpec)
    kmu          \* kademliaTable.mu: the goroutine holding it, or "none"

vars == <<buckets, peers, now, ticks, pc, pend, panicked, calls, ev,
          engines, net, conn, rlp, mu, tpc, kmu>>
engineVars == <<peers, ticks, pc, pend>>
bondVars == <<engines, net>>
mutexVars == <<mu, tpc, kmu>>
auxVars == <<bondVars, conn, rlp, mutexVars>>
\* What the two-engine actions leave alone, the clock apart.
nonBondVars == <<buckets, peers, pc, pend, panicked, calls, ev, conn, rlp,
                 mutexVars>>

NoEv == [op |-> "none", node |-> NilENR, target |-> NilENR, count |-> 0,
         result |-> <<>>, d |-> NoDatagram, from |-> {-1}, err |-> "",
         sent |-> <<>>]

NoPend == [peer |-> Record({-1}, "", 0), recs |-> <<>>]

\* Two engines as New leaves them, and an empty network.
Engines == {"A", "B"}

newEngine == [peers |-> <<>>, buckets |-> newKademliaTable, panicked |-> FALSE,
              pc |-> "read", pend |-> NoPend.peer, ext |-> "idle"]

BondInit ==
    /\ engines = [e \in Engines |-> newEngine]
    /\ net = {}

\* err: the error a call returned; Encode and Decode have no error result.
NoCall == [op |-> "none", item |-> NilItem, bytes |-> <<>>, out |-> <<>>,
           result |-> NilItem, panic |-> FALSE, err |-> ""]

\* The goroutines of one engine: Serve, Update, and two callers of Ping.
Tasks == {"serve", "update", "ext1", "ext2"}
Callers == {"ext1", "ext2"}

\* A position: the location and the Ping calls handleNeighbors has left.
Pos(loc, left) == [loc |-> loc, left |-> left]
At0(loc) == Pos(loc, 0)

AuxInit ==
    /\ BondInit
    /\ conn = "open"
    /\ rlp = NoCall
    /\ mu = "none"
    /\ kmu = "none"
    /\ tpc = [t \in Tasks |-> IF t = "serve" THEN At0("read") ELSE At0("idle")]

Init ==
    /\ buckets = newKademliaTable
    /\ peers = <<>>
    /\ now = 1
    /\ ticks = 0
    /\ pc = "read"
    /\ pend = NoPend
    /\ panicked = FALSE
    /\ calls = 0
    /\ ev = NoEv
    /\ AuxInit

(***************************************************************************)
(* The table driven directly by a caller that survives a panic of a call   *)
(* (the deferred kt.mu.Unlock has released the table's mutex).             *)
(***************************************************************************)
CallInsert(node) ==
    LET r == Insert(buckets, node, now) IN
    /\ buckets' = r.table
    /\ panicked' = r.panic
    /\ calls' = calls + 1
    /\ ev' = [NoEv EXCEPT !.op = "Insert", !.node = node]
    /\ UNCHANGED <<now, engineVars>>

CallFindClosest(target, count) ==
    \E o \in FindClosestOutcomes(buckets, target, count) :
        /\ panicked' = o.panic
        /\ ev' = [NoEv EXCEPT !.op = "FindClosest", !.target = target,
                              !.count = count, !.result = o.result]
        /\ calls' = calls + 1
        /\ UNCHANGED <<buckets, now, engineVars>>

TableInsert ==
    /\ calls < MaxInserts
    /\ \E node \in TableNodes : CallInsert(node)
    /\ UNCHANGED auxVars

TableFindClosest ==
    /\ calls < MaxInserts + 1
    /\ \E target \in TableNodes \cup {selfNode},
          count \in (0..MaxCount) \cup {findNodeCount} :
           CallFindClosest(target, count)
    /\ UNCHANGED auxVars

TableNext == TableInsert \/ TableFindClosest

TableSpec == Init /\ [][TableNext]_vars

FillInsert ==
    /\ calls < MaxFill
    /\ \E node \in FillNodes : CallInsert(node)
    /\ UNCHANGED auxVars

FillNext == FillInsert

FillSpec == Init /\ [][FillNext]_vars

(***************************************************************************)
(* The engine: the serve goroutine reads one datagram at a time; Ping is   *)
(* also called from other goroutines.  A panic ends the process.           *)
(***************************************************************************)
ServeEv(d, e, sent, node) ==
    [NoEv EXCEPT !.op = "serve", !.d = d, !.from = d.from,
                 !.err = e, !.sent = sent, !.node = node]

\* serve or a handler returns an error before it touched anything.
Rejected(d, e) ==
    /\ ev' = ServeEv(d, e, <<>>, NilENR)
    /\ UNCHANGED <<buckets, peers, now, ticks, pc, pend, panicked, calls>>

\* serve's own checks, then the handler's decoding of the payload.
ServeError(d) ==
    IF FramingError(d) # "" THEN FramingError(d) ELSE DecodeError(d)

\* handlePing up to the release of writeMut.  wok: the Pong was written.
handlePing(d, wok) ==
    IF ServeError(d) # "" THEN Rejected(d, ServeError(d))
    ELSE IF PingFromError(d) # "" THEN Rejected(d, PingFromError(d))
    ELSE IF ~wok THEN Rejected(d, "write")
    ELSE LET req == Record(d.from, d.src.ip, d.src.port)
             old == IF d.from \in DOMAIN peers THEN peers[d.from] ELSE req
             peer == [old EXCEPT !.ReceivedPing = now]
             r == Insert(buckets, NodeOf(peer), now)
         IN  /\ peers' = MapPut(peers, peer)
             /\ IF Bonded(peer)
                THEN /\ buckets' = r.table
                     /\ panicked' = r.panic
                     /\ ev' = ServeEv(d, "", <<Packet(2, d.src, InboundHash)>>,
                                      NodeOf(peer))
                ELSE /\ UNCHANGED <<buckets, panicked>>
                     /\ ev' = ServeEv(d, "", <<Packet(2, d.src, InboundHash)>>,
                                      NilENR)
             /\ pc' = "pingTail"
             /\ pend' = [NoPend EXCEPT !.peer = peer]
             /\ UNCHANGED <<now, ticks, calls>>

\* handlePing after the release of writeMut.
handlePingTail(wok) ==
    LET peer == pend.peer
        r == Ping(peers, peer, now, wok)
    IN  /\ IF Since(peer.SentPing, now) > Hour
           THEN /\ peers' = r.peers
                /\ ev' = [NoEv EXCEPT !.op = "handlePing.Ping",
                                      !.from = peer.id, !.err = r.err,
                                      !.sent = r.sent]
           ELSE /\ UNCHANGED peers
                /\ ev' = [NoEv EXCEPT !.op = "handlePing.Ping",
                                      !.from = peer.id]
        /\ pc' = "read"
        /\ pend' = NoPend
        /\ UNCHANGED <<buckets, now, ticks, panicked, calls>>

handlePong(d) ==
    IF ServeError(d) # "" THEN Rejected(d, ServeError(d))
    ELSE IF PongError(peers, d, now) # ""
    THEN Rejected(d, PongError(peers, d, now))
    ELSE LET peer == [peers[d.from] EXCEPT !.ReceivedPong = now]
             r == Insert(buckets, NodeOf(peer), now)
         IN  /\ peers' = MapPut(peers, peer)
             /\ IF Bonded(peer)
                THEN /\ buckets' = r.table
                     /\ panicked' = r.panic
                     /\ ev' = ServeEv(d, "", <<>>, NodeOf(peer))
                ELSE /\ UNCHANGED <<buckets, panicked>>
                     /\ ev' = ServeEv(d, "", <<>>, NilENR)
             /\ UNCHANGED <<now, ticks, pc, pend, calls>>

\* handleFindNode: a nil record in the result is dereferenced by the loop
\* over recs.
handleFindNode(d, wok) ==
    IF ServeError(d) # "" THEN Rejected(d, ServeError(d))
    ELSE \E o \in FindClosestOutcomes(buckets, ENR(d.target, 0), findNodeCount) :
         IF o.panic \/ (\E i \in 1..Len(o.result) : o.result[i] = NilENR)
         THEN /\ panicked' = TRUE
              /\ ev' = [ServeEv(d, "", <<>>, NilENR) EXCEPT !.result = o.result]
              /\ UNCHANGED <<buckets, peers, now, ticks, pc, pend, calls>>
         ELSE /\ ev' = [ServeEv(d, IF wok THEN "" ELSE "write",
                                IF wok THEN <<Packet(4, d.src, ZeroHash)>>
                                       ELSE <<>>, NilENR)
                           EXCEPT !.result = o.result]
              /\ UNCHANGED <<buckets, peers, now, ticks, pc, pend, panicked,
                             calls>>

\* handleNeighbors up to the loop over the records.
handleNeighbors(d) ==
    IF ServeError(d) # "" THEN Rejected(d, ServeError(d))
    ELSE IF ~d.recsOk THEN Rejected(d, "reading pubkey")
    ELSE LET recs == SelectSeq(d.recs, LAMBDA rec : rec.id # SelfId) IN
         /\ ev' = ServeEv(d, "", <<>>, NilENR)
         /\ pc' = IF recs = <<>> THEN "read" ELSE "neighbors"
         /\ pend' = [NoPend EXCEPT !.recs = recs]
         /\ UNCHANGED <<buckets, peers, now, ticks, panicked, calls>>

\* One turn of handleNeighbors' loop: p.Ping(rec).
handleNeighborsPing(wok) ==
    LET rec == Head(pend.recs)
        r == Ping(peers, rec, now, wok)
        rest == IF r.err # "" THEN <<>> ELSE Tail(pend.recs)
    IN  /\ peers' = r.peers
        /\ ev' = [NoEv EXCEPT !.op = "handleNeighbors.Ping", !.from = rec.id,
                              !.err = r.err, !.sent = r.sent]
        /\ pc' = IF rest = <<>> THEN "read" ELSE "neighbors"
        /\ pend' = [NoPend EXCEPT !.recs = rest]
        /\ UNCHANGED <<buckets, now, ticks, panicked, calls>>

\* handleENRRequest rejecting a request that expires at this instant.
handleENRRequest_RejectsNow(d, wok) ==
    IF ServeError(d) # "" THEN Rejected(d, ServeError(d))
    ELSE IF d.expiration <= now THEN Rejected(d, "expired enr request")
    ELSE IF ~wok THEN Rejected(d, "write")
    ELSE /\ ev' = ServeEv(d, "", <<Packet(6, d.src, InboundHash)>>, NilENR)
         /\ UNCHANGED <<buckets, peers, now, ticks, pc, pend, panicked, calls>>

handleENRRequest(d, wok) ==
    IF ServeError(d) # "" THEN Rejected(d, ServeError(d))
    ELSE IF d.expiration < now THEN Rejected(d, "expired enr request")
    ELSE IF ~wok THEN Rejected(d, "write")
    ELSE /\ ev' = ServeEv(d, "", <<Packet(6, d.src, InboundHash)>>, NilENR)
         /\ UNCHANGED <<buckets, peers, now, ticks, pc, pend, panicked, calls>>

\* serve's default case: the packet is logged.
handleUnknown(d) ==
    IF FramingError(d) # "" THEN Rejected(d, FramingError(d))
    ELSE /\ ev' = ServeEv(d, "", <<>>, NilENR)
         /\ UNCHANGED <<buckets, peers, now, ticks, pc, pend, panicked, calls>>

\* Serve's loop stands at p.read and the socket yields a datagram.
Reading == ~panicked /\ pc = "read" /\ conn = "open"

ServePing ==
    /\ Reading
    /\ \E d \in PingDatagrams, wok \in BOOLEAN : handlePing(d, wok)
    /\ UNCHANGED auxVars

PingTail ==
    /\ ~panicked /\ pc = "pingTail"
    /\ \E wok \in BOOLEAN : handlePingTail(wok)
    /\ UNCHANGED auxVars

\* The ping-hash of an inbound Pong: all zero, the hash of no Ping this
\* node sent, or the hash stored with a peer.
PongDatagrams ==
    {Malformed(2)} \cup
    {[d EXCEPT !.pingHash = h] :
        d \in FramingCases(2),
        h \in {peers[id].SentPingHash : id \in DOMAIN peers}} \cup
    {[d EXCEPT !.pingHash = h] :
        d \in Decodable(2),
        h \in {ZeroHash, BogusHash}
                 \cup {peers[id].SentPingHash : id \in DOMAIN peers}}

ServePong ==
    /\ Reading
    /\ \E d \in PongDatagrams : handlePong(d)
    /\ UNCHANGED auxVars

ServeFindNode ==
    /\ Reading
    /\ \E d \in FindNodeDatagrams, wok \in BOOLEAN : handleFindNode(d, wok)
    /\ UNCHANGED auxVars

ServeNeighbors ==
    /\ Reading
    /\ \E d \in NeighborsDatagrams : handleNeighbors(d)
    /\ UNCHANGED auxVars

NeighborsPing ==
    /\ ~panicked /\ pc = "neighbors"
    /\ \E wok \in BOOLEAN : handleNeighborsPing(wok)
    /\ UNCHANGED auxVars

ServeENRRequest ==
    /\ Reading
    /\ \E d \in ENRRequestDatagrams(now), wok \in BOOLEAN :
           handleENRRequest(d, wok)
    /\ UNCHANGED auxVars

ServeUnknown ==
    /\ Reading
    /\ \E d \in {Malformed(7)} \cup FramingCases(7) \cup Decodable(7) :
           handleUnknown(d)
    /\ UNCHANGED auxVars

\* process.Ping called from outside the serve goroutine.
ExtPing ==
    /\ ~panicked
    /\ \E id \in PeerIds, a \in SrcAddrs, wok \in BOOLEAN :
        LET dest == Record(id, a.ip, a.port)
            r == Ping(peers, dest, now, wok)
        IN  /\ peers' = r.peers
            /\ ev' = [NoEv EXCEPT !.op = "Ping", !.from = id, !.err = r.err,
                                  !.sent = r.sent]
            /\ UNCHANGED <<buckets, now, ticks, pc, pend, panicked, calls>>
    /\ UNCHANGED auxVars

\* One round of Update: FindNode to the peers in map order until a write
\* succeeds.
Update ==
    /\ ~panicked
    /\ \E sent \in {<<>>} \cup
                   (IF Cardinality(DOMAIN peers) >= maxPeers THEN {}
                    ELSE {<<Packet(3, UDPAddr(peers[id]), ZeroHash)>> :
                             id \in DOMAIN peers}) :
           ev' = [NoEv EXCEPT !.op = "Update", !.sent = sent]
    /\ UNCHANGED <<buckets, peers, now, ticks, pc, pend, panicked, calls>>
    /\ UNCHANGED auxVars

Tick ==
    /\ ~panicked
    /\ ticks < MaxTicks
    /\ \E d \in {1, Minute, Hour} : now' = now + d
    /\ ticks' = ticks + 1
    /\ ev' = [NoEv EXCEPT !.op = "tick"]
    /\ UNCHANGED <<buckets, peers, pc, pend, panicked, calls>>
    /\ UNCHANGED auxVars

Next ==
    \/ ServePing
    \/ PingTail
    \/ ServePong
    \/ ServeFindNode
    \/ ServeNeighbors
    \/ NeighborsPing
    \/ ServeENRRequest
    \/ ServeUnknown
    \/ ExtPing
    \/ Update
    \/ Tick

Spec == Init /\ [][Next]_vars

(***************************************************************************)
(* Serve's loop and the socket.  conn.ReadFrom fails once on an open       *)
(* socket (a transient failure) and always on a closed one; read returns   *)
(* the error, Serve logs it and calls read again.                          *)
(***************************************************************************)
ReadError ==
    /\ ~panicked
    /\ pc = "read"
    /\ ev' = [NoEv EXCEPT !.op = "read", !.err = "reading from conn"]
    /\ UNCHANGED <<buckets, peers, now, ticks, pc, pend, panicked, calls,
                   auxVars>>

CloseConn ==
    /\ conn = "open"
    /\ conn' = "closed"
    /\ ev' = [NoEv EXCEPT !.op = "close"]
    /\ UNCHANGED <<buckets, peers, now, ticks, pc, pend, panicked, calls,
                   bondVars, rlp, mutexVars>>

ServeNext ==
    \/ ServeENRRequest
    \/ ServeUnknown
    \/ ReadError
    \/ CloseConn
    \/ Tick

\* The serve goroutine is scheduled: a read that can fail is retried.
ServeSpec == Init /\ [][ServeNext]_vars /\ WF_vars(ReadError)

(***************************************************************************)
(* Two engines A and B on one network.  Every datagram written is          *)
(* delivered, in any order; the clock moves by seconds and stays inside    *)
(* the Pong window.  Each engine runs New, Serve and the handlers above; a *)
(* panic ends that engine's process.                                       *)
(***************************************************************************)
EngId(e) == IF e = "A" THEN IdNear ELSE IdFar1
EngAddr(e) == IF e = "A" THEN [ip |-> "10.0.0.1", port |-> 30303]
                         ELSE [ip |-> "10.0.0.2", port |-> 30304]
Other(e) == IF e = "A" THEN "B" ELSE "A"

\* The datagram that write puts on the wire for a packet of engine e: the
\* from field of a Ping is the sender's own address.
Wire(e, pkt, pingHash) ==
    [kind |-> pkt.kind, from |-> EngId(e), src |-> EngAddr(e), dst |-> pkt.to,
     fromIp |-> EngAddr(e).ip, fromPort |-> EngAddr(e).port,
     hash |-> pkt.hash, pingHash |-> pingHash]

WireAll(e, sent) == {Wire(e, sent[i], ZeroHash) : i \in 1..Len(sent)}

Inbox(e, kind) ==
    {m \in net : m.kind = kind /\ m.dst = EngAddr(e)}

CanRead(e) == ~engines[e].panicked /\ engines[e].pc = "read"

\* An external caller of engine A calls Ping with B's record.
BondPing ==
    LET E == engines["A"]
        dest == Record(EngId("B"), EngAddr("B").ip, EngAddr("B").port)
        r == Ping(E.peers, dest, now, TRUE)
    IN  /\ ~E.panicked
        /\ E.ext = "idle"
        /\ engines' = [engines EXCEPT !["A"].peers = r.peers,
                                      !["A"].ext = "done"]
        /\ net' = net \cup WireAll("A", r.sent)
        /\ UNCHANGED <<now, ticks, nonBondVars>>

\* Engine e reads a Ping: handlePing up to the release of writeMut.
BondServePing(e) ==
    \E m \in Inbox(e, 1) :
        LET E == engines[e]
            req == Record(m.from, m.src.ip, m.src.port)
            old == IF m.from \in DOMAIN E.peers THEN E.peers[m.from] ELSE req
            peer == [old EXCEPT !.ReceivedPing = now]
            r == InsertOf(ENR(EngId(e), 0), E.buckets, NodeOf(peer), now)
            pong == Wire(e, Packet(2, m.src, InboundHash), m.hash)
        IN  /\ CanRead(e)
            /\ IF PingFromError(m) # ""
               THEN /\ engines' = engines
                    /\ net' = net \ {m}
               ELSE /\ engines' =
                          [engines EXCEPT
                              ![e].peers = MapPut(E.peers, peer),
                              ![e].buckets =
                                  IF Bonded(peer) THEN r.table ELSE E.buckets,
                              ![e].panicked = Bonded(peer) /\ r.panic,
                              ![e].pc = "pingTail",
                              ![e].pend = peer]
                    /\ net' = (net \ {m}) \cup {pong}
            /\ UNCHANGED <<now, ticks, nonBondVars>>

\* Engine e: handlePing after the release of writeMut.
BondPingTail(e) ==
    LET E == engines[e]
        r == Ping(E.peers, E.pend, now, TRUE)
        pings == Since(E.pend.SentPing, now) > Hour
    IN  /\ ~E.panicked
        /\ E.pc = "pingTail"
        /\ engines' = [engines EXCEPT
                          ![e].peers = IF pings THEN r.peers ELSE E.peers,
                          ![e].pc = "read",
                          ![e].pend = NoPend.peer]
        /\ net' = IF pings THEN net \cup WireAll(e, r.sent) ELSE net
        /\ UNCHANGED <<now, ticks, nonBondVars>>

\* Engine e reads a Pong: handlePong.
BondServePong(e) ==
    \E m \in Inbox(e, 2) :
        LET E == engines[e]
            peer == [E.peers[m.from] EXCEPT !.ReceivedPong = now]
            r == InsertOf(ENR(EngId(e), 0), E.buckets, NodeOf(peer), now)
        IN  /\ CanRead(e)
            /\ net' = net \ {m}
            /\ IF PongError(E.peers, m, now) # ""
               THEN engines' = engines
               ELSE engines' =
                        [engines EXCEPT
                            ![e].peers = MapPut(E.peers, peer),
                            ![e].buckets =
                                IF Bonded(peer) THEN r.table ELSE E.buckets,
                            ![e].panicked = Bonded(peer) /\ r.panic]
            /\ UNCHANGED <<now, ticks, nonBondVars>>

BondTick ==
    /\ ticks < MaxBondTicks
    /\ now' = now + 1
    /\ ticks' = ticks + 1
    /\ UNCHANGED <<nonBondVars, bondVars>>

BondNext ==
    \/ BondPing
    \/ \E e \in Engines : BondServePing(e)
    \/ \E e \in Engines : BondPingTail(e)
    \/ \E e \in Engines : BondServePong(e)
    \/ BondTick

\* The caller's goroutine and each serve goroutine are scheduled, and the
\* network delivers.
BondSpec ==
    /\ Init
    /\ [][BondNext]_vars
    /\ WF_vars(BondPing)
    /\ \A e \in Engines :
           /\ WF_vars(BondServePing(e))
           /\ WF_vars(BondPingTail(e))
           /\ WF_vars(BondServePong(e))

(***************************************************************************)
(* The codec called on its own: Encode of an Item, Decode of a byte        *)
(* slice, and Decode of what Encode returned.  The functions keep no       *)
(* state, so a behaviour is one call.                                      *)
(***************************************************************************)
Fill(n) == [i \in 1..n |-> 7]

\* Byte strings: empty, single bytes around str1H, and lengths around 55,
\* 128 and 256.
Strings ==
    {<<>>, <<0>>, <<127>>, <<128>>, <<255>>, <<1, 2, 3>>,
     Fill(55), Fill(56), Fill(127), Fill(128), Fill(255), Fill(256),
     Fill(MaxStrLen)}

StringItems == {Bytes(d) : d \in Strings}

ShortItems == {Bytes(<<>>), Bytes(<<1>>), Bytes(<<128>>), Bytes(<<1, 2, 3>>)}

FlatLists ==
    {List(l) : l \in UNION {[1..n -> StringItems] : n \in 0..MaxListLen}}

SmallLists ==
    {List(l) : l \in UNION {[1..n -> ShortItems] : n \in 0..MaxListLen}}

NestedChildren ==
    {List(<<>>), List(<<Bytes(<<1>>)>>), List(<<List(<<>>)>>),
     List(<<Bytes(<<1, 2, 3>>), Bytes(<<128>>)>>),
     List(<<Bytes(Fill(56))>>), Bytes(<<>>)}

NestedLists ==
    {List(l) : l \in UNION {[1..n -> NestedChildren] : n \in 1..MaxListLen}}

\* Item trees: every node sets exactly one of D and L.
Trees == StringItems \cup FlatLists \cup NestedLists

\* Items that set both D and L.
BothItems ==
    {[D |-> d, Dset |-> TRUE, L |-> l, Lset |-> TRUE] :
        d \in {<<>>, <<1>>, <<1, 2, 3>>},
        l \in {<<>>, <<Bytes(<<2>>)>>}}

DecodeTrees == ShortItems \cup SmallLists \cup {Bytes(Fill(56))}

\* Inputs of Decode: an encoding, an encoding followed by further bytes,
\* an encoding cut short, and an encoding whose first byte declares one
\* byte more or less; each in a slice without and with spare capacity.
ByteInputs ==
    UNION {LET b == Encode(t) IN
           {b, b \o <<2>>, b \o <<128>>, SubSeq(b, 1, Len(b) - 1),
            <<Byte(b[1] + 1)>> \o Tail(b)} \cup
           (IF b[1] \in {str55L, list55L} THEN {}
            ELSE {<<Byte(b[1] - 1)>> \o Tail(b)}) :
           t \in DecodeTrees}

Spares == {<<>>, <<0, 0>>}

RlpEncode ==
    /\ rlp.op = "none"
    /\ \E item \in Trees \cup BothItems :
           rlp' = [NoCall EXCEPT !.op = "Encode", !.item = item,
                                 !.out = Encode(item)]
    /\ UNCHANGED <<buckets, peers, now, ticks, pc, pend, panicked, calls, ev,
                   bondVars, conn, mutexVars>>

RlpDecode ==
    /\ rlp.op = "none"
    /\ \E bytes \in ByteInputs, spare \in Spares :
           LET r == Decode(MkSlice(bytes \o spare, Len(bytes))) IN
           rlp' = [NoCall EXCEPT !.op = "Decode", !.bytes = bytes,
                                 !.result = r.item, !.panic = r.panic]
    /\ UNCHANGED <<buckets, peers, now, ticks, pc, pend, panicked, calls, ev,
                   bondVars, conn, mutexVars>>

RlpRoundTrip ==
    /\ rlp.op = "none"
    /\ \E item \in Trees :
           LET b == Encode(item)
               r == Decode(SliceOf(b))
           IN  rlp' = [NoCall EXCEPT !.op = "RoundTrip", !.item = item,
                                     !.out = b, !.bytes = b,
                                     !.result = r.item, !.panic = r.panic]
    /\ UNCHANGED <<buckets, peers, now, ticks, pc, pend, panicked, calls, ev,
                   bondVars, conn, mutexVars>>

RlpNext == RlpEncode \/ RlpDecode \/ RlpRoundTrip

RlpSpec == Init /\ [][RlpNext]_vars

(***************************************************************************)
(* The goroutines of one engine and writeMut.  A location is where a       *)
(* goroutine stands; at a location of PeerAccess it is reading or writing  *)
(* the peer map or a record of it.                                         *)
(*   serve : read; handlePing  hpLock (l.262), hpCrit (l.263-272), hpTail  *)
(*           (l.274); handlePong poLock (l.294), poCrit (l.296-310); Ping  *)
(*           pgLock (l.375), pgCrit (l.378-405); Insert called by          *)
(*           handlePing hpKLock (kademlia.go l.84), hpIns (l.87-93), by    *)
(*           handlePong poKLock, poIns; FindClosest called by              *)
(*           handleFindNode fnKLock (l.100), fnFind (l.103-111)            *)
(*   update: idle (the sleep), upLen (l.23-24), upRange (l.27-34)          *)
(*   ext   : idle, pgLock, pgCrit                                          *)
(***************************************************************************)
PeerAccess == {"hpCrit", "hpTail", "poCrit", "pgCrit", "upLen", "upRange"}
PeerWrite == {"hpCrit", "poCrit", "pgCrit"}
LockLocs == {"hpLock", "poLock", "pgLock"}

CritOf(loc) ==
    IF loc = "hpLock" THEN "hpCrit"
    ELSE IF loc = "poLock" THEN "poCrit" ELSE "pgCrit"

\* kt.mu.Lock() in Insert and FindClosest, and the location behind it.
TableLockLocs == {"hpKLock", "poKLock", "fnKLock"}

TableCritOf(loc) ==
    IF loc = "hpKLock" THEN "hpIns"
    ELSE IF loc = "poKLock" THEN "poIns" ELSE "fnFind"

\* Two goroutines are at the peer state together and one of them writes.
Race ==
    \E t1, t2 \in Tasks :
        /\ t1 # t2
        /\ tpc[t1].loc \in PeerWrite
        /\ tpc[t2].loc \in PeerAccess

MxData ==
    UNCHANGED <<buckets, peers, now, ticks, pc, pend, calls, ev, bondVars,
                conn, rlp>>

MxFrame == MxData /\ UNCHANGED kmu

\* serve dispatches a datagram to a handler that takes a mutex:
\* handlePing, handlePong, handleFindNode, or handleNeighbors with its Ping
\* calls.
MxDispatch ==
    /\ ~panicked
    /\ tpc["serve"].loc = "read"
    /\ \E p \in {At0("hpLock"), At0("poLock"), At0("fnKLock")} \cup
                {Pos("pgLock", n) : n \in 0..(MaxNeighbors - 1)} :
           tpc' = [tpc EXCEPT !["serve"] = p]
    /\ UNCHANGED <<mu, panicked>>
    /\ MxFrame

\* writeMut.Lock(): blocks while another goroutine holds the mutex.
MxLock(t) ==
    /\ ~panicked
    /\ tpc[t].loc \in LockLocs
    /\ mu = "none"
    /\ mu' = t
    /\ tpc' = [tpc EXCEPT ![t].loc = CritOf(@)]
    /\ UNCHANGED panicked
    /\ MxFrame

\* handlePing's critical section: the peer has both timestamps and
\* Insert is called with writeMut held, or it has not, and the Unlock.
MxHandlePingCrit ==
    /\ ~panicked
    /\ tpc["serve"].loc = "hpCrit"
    /\ \/ /\ tpc' = [tpc EXCEPT !["serve"] = At0("hpKLock")]
          /\ UNCHANGED mu
       \/ /\ mu' = "none"
          /\ tpc' = [tpc EXCEPT !["serve"] = At0("hpTail")]
    /\ UNCHANGED panicked
    /\ MxFrame

\* time.Since(peer.SentPing) > time.Hour, then p.Ping(peer) or return.
MxHandlePingTail ==
    /\ ~panicked
    /\ tpc["serve"].loc = "hpTail"
    /\ \E p \in {At0("read"), At0("pgLock")} :
           tpc' = [tpc EXCEPT !["serve"] = p]
    /\ UNCHANGED <<mu, panicked>>
    /\ MxFrame

\* handlePong's critical section: Insert is called with writeMut held, or
\* the handler returns and its deferred Unlock runs.
MxHandlePongCrit ==
    /\ ~panicked
    /\ tpc["serve"].loc = "poCrit"
    /\ \/ /\ tpc' = [tpc EXCEPT !["serve"] = At0("poKLock")]
          /\ UNCHANGED mu
       \/ /\ mu' = "none"
          /\ tpc' = [tpc EXCEPT !["serve"] = At0("read")]
    /\ UNCHANGED panicked
    /\ MxFrame

\* kt.mu.Lock(): blocks while another goroutine holds the table's mutex.
MxTableLock(t) ==
    /\ ~panicked
    /\ tpc[t].loc \in TableLockLocs
    /\ kmu = "none"
    /\ kmu' = t
    /\ tpc' = [tpc EXCEPT ![t].loc = TableCritOf(@)]
    /\ UNCHANGED <<mu, panicked>>
    /\ MxData

\* Insert under kt.mu, called on the table of a running engine, which
\* is the table New built: store writes the nil entriesMap and panics.
\* The deferred Unlocks run, of kt.mu and, in handlePong, of writeMut;
\* handlePing's Unlock is not deferred and is skipped.  Nothing recovers
\* the panic: the process ends.  Were Insert to return, handlePing would
\* unlock and go on, and handlePong would return.
MxInsert ==
    /\ ~panicked
    /\ tpc["serve"].loc \in {"hpIns", "poIns"}
    /\ \E id \in PeerIds :
           LET r == Insert(newKademliaTable, ENR(id, 1), now) IN
           /\ panicked' = r.panic
           /\ mu' = IF r.panic /\ tpc["serve"].loc = "hpIns" THEN mu
                    ELSE "none"
           /\ tpc' = [tpc EXCEPT !["serve"] =
                         IF r.panic THEN @
                         ELSE IF @.loc = "hpIns" THEN At0("hpTail")
                         ELSE At0("read")]
    /\ kmu' = "none"
    /\ MxData

\* FindClosest under kt.mu: the engine's read of the table, which holds
\* no node as long as the process runs, so s.nodes[:16] panics; the
\* deferred Unlock runs and the process ends.
MxFindClosest ==
    /\ ~panicked
    /\ tpc["serve"].loc = "fnFind"
    /\ \E o \in FindClosestOutcomes(newKademliaTable, selfNode, findNodeCount) :
           /\ panicked' = o.panic
           /\ tpc' = [tpc EXCEPT !["serve"] = IF o.panic THEN @ ELSE At0("read")]
    /\ kmu' = "none"
    /\ UNCHANGED mu
    /\ MxData

\* Ping's critical section and its deferred Unlock; handleNeighbors goes on
\* to its next record.
MxPingCrit(t) ==
    /\ ~panicked
    /\ tpc[t].loc = "pgCrit"
    /\ mu' = "none"
    /\ tpc' = [tpc EXCEPT ![t] =
                  IF t # "serve" THEN At0("idle")
                  ELSE IF @.left > 0 THEN Pos("pgLock", @.left - 1)
                  ELSE At0("read")]
    /\ UNCHANGED panicked
    /\ MxFrame

\* A goroutine outside Serve calls Ping.
MxCallPing(t) ==
    /\ ~panicked
    /\ t \in Callers
    /\ tpc[t].loc = "idle"
    /\ tpc' = [tpc EXCEPT ![t] = At0("pgLock")]
    /\ UNCHANGED <<mu, panicked>>
    /\ MxFrame

\* Update: len(p.peers), then the range over p.peers, then the sleep.
MxUpdate ==
    /\ ~panicked
    /\ \/ /\ tpc["update"].loc = "idle"
          /\ tpc' = [tpc EXCEPT !["update"] = At0("upLen")]
       \/ /\ tpc["update"].loc = "upLen"
          /\ \E p \in {At0("idle"), At0("upRange")} :
                 tpc' = [tpc EXCEPT !["update"] = p]
       \/ /\ tpc["update"].loc = "upRange"
          /\ tpc' = [tpc EXCEPT !["update"] = At0("idle")]
    /\ UNCHANGED <<mu, panicked>>
    /\ MxFrame

\* A map read while another goroutine writes the map: the runtime may
\* detect it and end the process (fatal error: concurrent map read and map
\* write), or let both go on.
MxMapFault ==
    /\ ~panicked
    /\ tpc["update"].loc \in {"upLen", "upRange"}
    /\ \E t \in Tasks : t # "update" /\ tpc[t].loc \in {"hpCrit", "pgCrit"}
    /\ panicked' = TRUE
    /\ UNCHANGED <<mu, tpc>>
    /\ MxFrame

MutexNext ==
    \/ MxDispatch
    \/ \E t \in Tasks : MxLock(t)
    \/ MxHandlePingCrit
    \/ MxHandlePingTail
    \/ MxHandlePongCrit
    \/ \E t \in Tasks : MxTableLock(t)
    \/ MxInsert
    \/ MxFindClosest
    \/ \E t \in Tasks : MxPingCrit(t)
    \/ \E t \in Tasks : MxCallPing(t)
    \/ MxUpdate
    \/ MxMapFault

MutexSpec == Init /\ [][MutexNext]_vars

\* The scheduler runs every goroutine that can take a step; conn.WriteTo
\* returns, so a critical section ends; sync.Mutex hands the mutex to a
\* goroutine that has waited (starvation mode), so a goroutine that finds
\* the mutex free again and again gets it.  The sleep of Update, the
\* arrival of datagrams, the calls from outside and the detection of a
\* racing map access are not forced.
MutexLiveSpec ==
    /\ MutexSpec
    /\ \A t \in Tasks : SF_vars(MxLock(t))
    /\ \A t \in Tasks : WF_vars(MxTableLock(t))
    /\ \A t \in Tasks : WF_vars(MxPingCrit(t))
    /\ WF_vars(MxHandlePingCrit)
    /\ WF_vars(MxHandlePingTail)
    /\ WF_vars(MxHandlePongCrit)
    /\ WF_vars(MxInsert)
    /\ WF_vars(MxFindClosest)

(***************************************************************************)
(* Properties.                                                             *)
(***************************************************************************)
Min(a, b) == IF a <= b THEN a ELSE b

InBucket(table, node) ==
    \E i \in 1..Len(table[BucketIndex(node)].lru) :
        table[BucketIndex(node)].lru[i].node.id = node.id

BothNonZero(id) ==
    /\ id \in DOMAIN peers
    /\ peers[id].ReceivedPing # 0
    /\ peers[id].ReceivedPong # 0

\* C1: a peer enters the routing table iff both received_ping and
\* received_pong are non-zero: serve hands a peer to Insert only when the
\* stored record has both timestamps non-zero, and every accepted Ping or
\* Pong that leaves both non-zero has inserted that peer: Insert returned
\* and the peer is in its bucket.
C1_BondedIffInTable ==
    ev.op = "serve" =>
        /\ ev.node # NilENR => BothNonZero(ev.node.id)
        /\ (ev.d.kind \in {1, 2} /\ ev.err = "" /\ BothNonZero(ev.from)) =>
               /\ ev.node.id = ev.from
               /\ ~panicked
               /\ InBucket(buckets, ev.node)

\* The engine's half of C1 alone: Insert is called exactly for the accepted
\* Ping or Pong that leaves both timestamps non-zero.
InsertCalledIffBonded ==
    ev.op = "serve" =>
        /\ ev.node # NilENR => BothNonZero(ev.node.id)
        /\ (ev.d.kind \in {1, 2} /\ ev.err = "" /\ BothNonZero(ev.from)) =>
               ev.node.id = ev.from

\* C2: a Pong whose ping-hash differs from the sender's stored
\* sent_ping_hash is rejected: the peer map (received_pong with it) and the
\* routing table are unchanged and Insert is not called, whatever the peer's
\* state.
C2_WrongHashPongRejected ==
    [][(/\ ev'.op = "serve"
        /\ ev'.d.kind = 2
        /\ ev'.d.from \in DOMAIN peers
        /\ ev'.d.pingHash # peers[ev'.d.from].SentPingHash)
       => (/\ ev'.err # ""
           /\ ev'.node = NilENR
           /\ peers' = peers
           /\ buckets' = buckets)]_vars

C2_Witness ==
    /\ ev.op = "serve"
    /\ ev.d.kind = 2
    /\ ev.err = "invalid ping hash"
    /\ ev.from \in DOMAIN peers
    /\ peers[ev.from].SentPing # 0
    /\ peers[ev.from].ReceivedPing # 0
    /\ now - peers[ev.from].SentPing <= Minute

\* C3: a Pong that arrives more than 60 seconds after the last outbound
\* Ping to its sender is rejected even when its ping-hash matches, and so is
\* a Pong of a sender absent from the peer map: the peer map and the routing
\* table are unchanged and Insert is not called.
C3_LatePongRejected ==
    [][(/\ ev'.op = "serve"
        /\ ev'.d.kind = 2
        /\ \/ ev'.d.from \notin DOMAIN peers
           \/ /\ peers[ev'.d.from].SentPing # 0
              /\ now - peers[ev'.d.from].SentPing > Minute)
       => (/\ ev'.err # ""
           /\ ev'.node = NilENR
           /\ peers' = peers
           /\ buckets' = buckets)]_vars

C3_Witness ==
    /\ ev.op = "serve"
    /\ ev.d.kind = 2
    /\ ev.err = "expired ping hash"
    /\ ev.from \in DOMAIN peers
    /\ peers[ev.from].SentPing # 0
    /\ ev.d.pingHash = peers[ev.from].SentPingHash
    /\ now - peers[ev.from].SentPing = Minute + 1

\* C4: after any sequence of Insert calls every bucket holds between 0 and
\* 16 entries.
C4_BucketSizeBound ==
    \A b \in Buckets : Len(buckets[b].lru) \in 0..maxBucketSize

\* C5: Insert of a node whose ID is not yet in its bucket, the first Insert
\* into a new table included, returns with the node at the front of the
\* bucket, the other entries behind it in their order, and the back entry
\* evicted if the bucket held 16 entries.
C5_NewNodePushedFront ==
    [][(ev'.op = "Insert" /\ ~InBucket(buckets, ev'.node))
       => LET b == BucketIndex(ev'.node)
              old == nodes(buckets[b])
          IN  /\ ~panicked'
              /\ nodes(buckets'[b]) =
                     <<ev'.node>> \o
                     (IF Len(old) >= maxBucketSize
                      THEN SubSeq(old, 1, maxBucketSize - 1) ELSE old)]_vars

\* C6: Insert of a node whose ID is already in its bucket moves that entry
\* to the front and replaces its ENR; the bucket keeps its size and the
\* other entries their order.
C6_ReinsertMovesToFront ==
    [][(ev'.op = "Insert" /\ InBucket(buckets, ev'.node))
       => LET b == BucketIndex(ev'.node)
              old == nodes(buckets[b])
              others == SelectSeq(old, LAMBDA n : n.id # ev'.node.id)
          IN  /\ nodes(buckets'[b]) = <<ev'.node>> \o others
              /\ Len(buckets'[b].lru) = Len(buckets[b].lru)]_vars

\* C7: no bucket's list holds two entries with the same NodeID, and the
\* bucket's lookup map has exactly the NodeIDs of the list as its keys.
C7_OneEntryPerNodeID ==
    \A b \in Buckets :
        LET l == nodes(buckets[b]) IN
        /\ \A i, j \in 1..Len(l) : i # j => l[i].id # l[j].id
        /\ buckets[b].entriesMap.keys = {l[i].id : i \in 1..Len(l)}

\* C8: FindClosest(t, k) returns exactly min(k, total entries) distinct ENRs,
\* all of them entries of the table, in ascending log-distance from t.
C8_FindClosestResult ==
    ev.op = "FindClosest" =>
        LET all == Gather(buckets, 0)
            r == ev.result
        IN  /\ ~panicked
            /\ Len(r) = Min(ev.count, Len(all))
            /\ \A i, j \in 1..Len(r) : i # j => r[i] # r[j]
            /\ \A i \in 1..Len(r) : \E j \in 1..Len(all) : all[j] = r[i]
            /\ \A i, j \in 1..Len(r) :
                   i < j => LogDistance(r[i], ev.target)
                                <= LogDistance(r[j], ev.target)

\* C9: an inbound Ping whose from.ip or from.udp differs from the
\* datagram's source address is rejected before any effect: nothing is
\* sent, no outbound Ping follows, and the peer map and the routing table
\* are unchanged.
C9_PingFromMismatchRejected ==
    [][(/\ ev'.op = "serve"
        /\ ev'.d.kind = 1
        /\ \/ ev'.d.fromIp # ev'.d.src.ip
           \/ ev'.d.fromPort # ev'.d.src.port)
       => (/\ ev'.err # ""
           /\ ev'.sent = <<>>
           /\ ev'.node = NilENR
           /\ peers' = peers
           /\ buckets' = buckets
           /\ pc' = "read"
           /\ pend' = pend)]_vars

C9_Witness ==
    /\ ev.op = "serve"
    /\ ev.d.kind = 1
    /\ ev.d.len > headerSize /\ ev.d.hashOk /\ ev.d.sigOk /\ ev.d.rlpOk
    /\ ev.d.fromIp = ev.d.src.ip
    /\ ev.d.fromPort # ev.d.src.port
    /\ ev.err = "mismatch ping from-port with udp packet"

C11_ENRRequestExpiry ==
    [][(ev'.op = "serve" /\ ev'.d.kind = 5)
       => LET d == ev'.d IN
          /\ d.expiration < now => (ev'.err # "" /\ ev'.sent = <<>>)
          /\ (/\ d.len > headerSize /\ d.hashOk /\ d.sigOk /\ d.rlpOk
              /\ d.expiration >= now)
             => \/ /\ ev'.err = ""
                   /\ Len(ev'.sent) = 1
                   /\ ev'.sent[1].kind = 6
                   /\ ev'.sent[1].to = d.src
                \/ ev'.err = "write" /\ ev'.sent = <<>>
          /\ \A i \in 1..Len(ev'.sent) : ev'.sent[i].kind = 6]_vars

C11_Witness ==
    /\ ev.op = "serve"
    /\ ev.d.kind = 5
    /\ ev.d.len > headerSize /\ ev.d.hashOk /\ ev.d.sigOk /\ ev.d.rlpOk
    /\ ev.d.expiration = now - 1
    /\ ev.err = "expired enr request"
    /\ ev.sent = <<>>

PingOps == {"Ping", "handlePing.Ping", "handleNeighbors.Ping"}

\* The Ping packets that the step into the state wrote to peer id.
PingsTo(e, id) ==
    IF e.op \in PingOps /\ e.from = id
    THEN SelectSeq(e.sent, LAMBDA pkt : pkt.kind = 1) ELSE <<>>

\* C12: outbound Ping is rate-limited per peer.  A Ping to a NodeID that
\* was pinged less than an hour ago sends nothing and leaves the peer map
\* unchanged; otherwise Ping (called by the Neighbors handler or from
\* outside) that returns no error has sent exactly one Ping; every Ping
\* sent records sent_ping = now and sent_ping_hash = the hash of that
\* packet; and a step that sends no Ping to a peer leaves its sent_ping
\* and sent_ping_hash as they were (zero for a peer that enters the map).
C12_PingRateLimit ==
    [][\A id \in PeerIds \cup {SelfId} :
        LET known == id \in DOMAIN peers
            limited == /\ known
                       /\ peers[id].SentPing # 0
                       /\ now - peers[id].SentPing < Hour
            pings == PingsTo(ev', id)
        IN  /\ (ev'.op \in PingOps /\ ev'.from = id /\ limited)
               => (ev'.sent = <<>> /\ peers' = peers)
            /\ (/\ ev'.op \in {"Ping", "handleNeighbors.Ping"}
                /\ ev'.from = id /\ ~limited /\ ev'.err = "")
               => Len(pings) = 1
            /\ pings # <<>>
               => /\ Len(pings) = 1
                  /\ id \in DOMAIN peers'
                  /\ peers'[id].SentPing = now
                  /\ peers'[id].SentPingHash = pings[1].hash
            /\ pings = <<>>
               => /\ known => /\ id \in DOMAIN peers'
                              /\ peers'[id].SentPing = peers[id].SentPing
                              /\ peers'[id].SentPingHash =
                                     peers[id].SentPingHash
                  /\ (~known /\ id \in DOMAIN peers')
                     => /\ peers'[id].SentPing = 0
                        /\ peers'[id].SentPingHash = ZeroHash]_vars

C12_Witness ==
    /\ ev.op = "handleNeighbors.Ping"
    /\ ev.err = ""
    /\ ev.sent = <<>>
    /\ ev.from \in DOMAIN peers
    /\ peers[ev.from].SentPing # 0
    /\ now - peers[ev.from].SentPing = Minute

InTableOf(e, id) ==
    LET b == BucketIndexOf(ENR(EngId(e), 0), ENR(id, 1)) IN
    \E i \in 1..Len(engines[e].buckets[b].lru) :
        engines[e].buckets[b].lru[i].node.id = id

BondedWith(e, o) ==
    /\ ~engines[e].panicked
    /\ EngId(o) \in DOMAIN engines[e].peers
    /\ engines[e].peers[EngId(o)].ReceivedPing # 0
    /\ engines[e].peers[EngId(o)].ReceivedPong # 0
    /\ InTableOf(e, EngId(o))

\* C13: Ping/Pong bond liveness.  Two engines A and B start with empty
\* peer stores; after A.Ping(B), with every datagram delivered inside the
\* Pong window, eventually each engine runs with the other in its routing
\* table and both received_ping and received_pong non-zero.
C13_BondLiveness ==
    <>(BondedWith("A", "B") /\ BondedWith("B", "A"))

\* The exchange of C13 up to the table: both engines hold both timestamps
\* of the other.
BothTimestamps ==
    <>(\A e \in Engines :
          /\ EngId(Other(e)) \in DOMAIN engines[e].peers
          /\ engines[e].peers[EngId(Other(e))].ReceivedPing # 0
          /\ engines[e].peers[EngId(Other(e))].ReceivedPong # 0)

BucketIds(bucket) == {bucket.lru[i].node.id : i \in 1..Len(bucket.lru)}

\* The datagram was accepted before: a valid Ping of a sender whose
\* received_ping is set; a Pong with the stored hash of a sender whose
\* received_pong is not older than the Ping it answers.
Replayed(d) ==
    /\ d.from \in DOMAIN peers
    /\ \/ d.kind = 1 /\ peers[d.from].ReceivedPing # 0
       \/ /\ d.kind = 2
          /\ peers[d.from].ReceivedPong # 0
          /\ peers[d.from].ReceivedPong >= peers[d.from].SentPing
          /\ d.pingHash = peers[d.from].SentPingHash

\* C14: a valid Ping, or a valid Pong inside its window, can be processed
\* again: the engine that accepted it runs on to accept it a second time,
\* and the second processing leaves the peer store with the same keys and
\* every bucket with the same NodeIDs, none of them twice.
C14_ReplayIdempotent ==
    [][(ev'.op = "serve" /\ ev'.d.kind \in {1, 2} /\ ev'.err = "")
       => /\ ~panicked'
          /\ Replayed(ev'.d)
             => /\ DOMAIN peers' = DOMAIN peers
                /\ \A b \in Buckets :
                       /\ BucketIds(buckets'[b]) = BucketIds(buckets[b])
                       /\ Cardinality(BucketIds(buckets'[b]))
                              = Len(buckets'[b].lru)]_vars

\* The part of C14 that the engine reaches: the replay of a datagram of a
\* peer that is not yet bonded.
ReplayBeforeBond ==
    [][(ev'.op = "serve" /\ ev'.d.kind \in {1, 2} /\ ev'.err = ""
        /\ Replayed(ev'.d) /\ ~panicked')
       => /\ DOMAIN peers' = DOMAIN peers
          /\ buckets' = buckets]_vars

\* C15: closing the UDP socket terminates the serve loop: once the socket
\* is closed, so that every read fails, Serve eventually returns.
C15_CloseEndsServe == (conn = "closed") ~> (pc = "returned")

\* The other half of C15: a failed read on an open socket leaves the loop
\* at its next read.
TransientReadErrorContinues ==
    [][(ev'.op = "read" /\ conn = "open") => (pc' = "read" /\ ~panicked')]_vars

\* C16: RLP round trip.  For every Item tree T built from byte strings and
\* lists, each node setting exactly one of D and L, Decode(Encode(T))
\* returns and equals T: the empty string, the empty list, single bytes up
\* to 0x7F, strings longer than 55 bytes and lists with a payload longer
\* than 55 bytes included.
C16_RoundTrip ==
    rlp.op = "RoundTrip" => (~rlp.panic /\ rlp.result = rlp.item)

C16_Witness ==
    /\ rlp.op = "RoundTrip"
    /\ rlp.item = List(<<Bytes(Fill(MaxStrLen)), Bytes(<<>>)>>)
    /\ rlp.out[1] > listNL
    /\ rlp.result = rlp.item

\* The number of bytes that holds n, and n in that many bytes, most
\* significant first.
RECURSIVE BigEndian(_)
BigEndian(n) ==
    IF n < 256 THEN <<n>> ELSE BigEndian(n \div 256) \o <<n % 256>>

\* C17: Encode of a byte string of length n > 55 is the byte 0xB7 + k, n as
\* a big-endian integer in the least number of bytes k, then the bytes;
\* Encode of a list whose payload has length m > 55 is 0xF7 + k, m
\* big-endian in k bytes, then the payload.
C17_LongLengthBigEndian ==
    rlp.op = "Encode" =>
        /\ (rlp.item.Dset /\ ~rlp.item.Lset /\ Len(rlp.item.D) > 55)
           => rlp.out = <<str55H + Len(BigEndian(Len(rlp.item.D)))>>
                          \o BigEndian(Len(rlp.item.D)) \o rlp.item.D
        /\ (rlp.item.Lset /\ ~rlp.item.Dset
            /\ Len(EncodeAll(rlp.item.L)) > 55)
           => rlp.out = <<list55H + Len(BigEndian(Len(EncodeAll(rlp.item.L))))>>
                          \o BigEndian(Len(EncodeAll(rlp.item.L)))
                          \o EncodeAll(rlp.item.L)

\* The lengths below 128, where the two encodings of a length agree.
LongLengthBelow128 ==
    (rlp.op = "Encode" /\ rlp.item.Dset /\ ~rlp.item.Lset
     /\ Len(rlp.item.D) \in 56..127)
    => rlp.out = <<str55H + 1, Len(rlp.item.D)>> \o rlp.item.D

\* C18: Encode of an Item that sets both D and L fails with an error and
\* returns no bytes.
C18_BothSetFails ==
    (rlp.op = "Encode" /\ rlp.item.Dset /\ rlp.item.Lset)
    => (rlp.err # "" /\ rlp.out = <<>>)

RECURSIVE SizeAll(_)
SizeAll(l) == IF l = <<>> THEN 0 ELSE Len(Encode(Head(l))) + SizeAll(Tail(l))

\* C19: Decode consumes exactly header and payload.  When Decode returns
\* an Item for an input, the input is one header and the payload it
\* declares: a string's bytes are the declared number of bytes of the
\* input, and a list's children tile the declared payload, so that no byte
\* behind the payload becomes a child and no declared byte is missing.
C19_DecodeExactPayload ==
    (rlp.op = "Decode" /\ ~rlp.panic /\ rlp.bytes # <<>>) =>
        LET h == rlp.bytes[1] IN
        /\ (h >= str55L /\ h <= str55H)
           => /\ Len(rlp.result.D) = h - str55L
              /\ Len(rlp.bytes) >= 1 + (h - str55L)
              /\ rlp.result.D = SubSeq(rlp.bytes, 2, 1 + (h - str55L))
        /\ (h >= list55L /\ h <= list55H)
           => /\ SizeAll(rlp.result.L) = h - list55L
              /\ Len(rlp.bytes) >= 1 + (h - list55L)

\* C20: all access to the shared peer state is serialized by the write
\* mutex: a goroutine that reads or writes the peer map, or sent_ping,
\* sent_ping_hash, received_ping or received_pong of a peer, holds writeMut
\* while it does, so no two goroutines are at that state together with one
\* of them writing.
C20_PeerStateUnderMutex ==
    /\ \A t \in Tasks : tpc[t].loc \in PeerAccess => mu = t
    /\ ~Race

\* The accesses of C20 that the code does make under the mutex: no two
\* critical sections overlap.
CriticalSectionsExclusive ==
    \A t1, t2 \in Tasks :
        (tpc[t1].loc \in PeerWrite /\ tpc[t2].loc \in PeerWrite) => t1 = t2

\* A writer of the peer map and Update's unlocked read, together.
RaceReached == ~Race

\* C21: an outbound Ping to a NodeID already in the peer store leaves the
\* stored peer's received_ping and received_pong as they were; only
\* sent_ping and sent_ping_hash may change.
C21_PingKeepsReceived ==
    [][\A id \in DOMAIN peers :
           (ev'.op \in PingOps /\ ev'.from = id)
           => /\ id \in DOMAIN peers'
              /\ peers'[id].ReceivedPing = peers[id].ReceivedPing
              /\ peers'[id].ReceivedPong = peers[id].ReceivedPong]_vars

\* The part of C21 that the code keeps: a skipped or failed Ping stores
\* nothing, and the Ping that handlePing sends at its end is handed the
\* record handlePing stored, when that is still the stored one.
StoredRecordPingKeepsReceived ==
    [][\A id \in DOMAIN peers :
           (ev'.op \in PingOps /\ ev'.from = id
            /\ \/ ev'.sent = <<>>
               \/ ev'.op = "handlePing.Ping" /\ pend.peer = peers[id])
           => /\ id \in DOMAIN peers'
              /\ peers'[id].ReceivedPing = peers[id].ReceivedPing
              /\ peers'[id].ReceivedPong = peers[id].ReceivedPong]_vars

\* The case C21 names, violated by the code: a Ping sent from
\* handleNeighbors to a peer whose Ping was received leaves received_ping
\* set.
ReceivedPingNeverErased ==
    [][\A id \in DOMAIN peers :
           (ev'.op = "handleNeighbors.Ping" /\ ev'.from = id
            /\ peers[id].ReceivedPing # 0)
           => peers'[id].ReceivedPing # 0]_vars

\* A goroutine waits for writeMut, or for the table's mutex.
WaitsWrite(t) == tpc[t].loc \in LockLocs
WaitsTable(t) == tpc[t].loc \in TableLockLocs

\* No goroutine asks for writeMut while it holds writeMut, and none asks
\* for it while it holds the table's mutex: the mutexes are nested in the
\* one order writeMut, then kt.mu.
LockDiscipline ==
    \A t \in Tasks :
        /\ WaitsWrite(t) => (mu # t /\ kmu # t)
        /\ WaitsTable(t) => kmu # t

\* C22: no task asks for the write mutex while it holds it, the mutexes
\* are nested only in the order write mutex, then routing-table mutex, and
\* so every task that asks for a mutex eventually gets it, given that UDP
\* writes return.
C22_DeadlockFreedom ==
    /\ []LockDiscipline
    /\ \A t \in Tasks : WaitsWrite(t) ~> (mu = t)
    /\ \A t \in Tasks : WaitsTable(t) ~> (kmu = t)

\* The part of C22 that the code keeps: a goroutine that asks for a mutex
\* gets it, or the process has ended before.
LockGrantedOrProcessEnded ==
    /\ \A t \in Tasks : WaitsWrite(t) ~> (mu = t \/ panicked)
    /\ \A t \in Tasks : WaitsTable(t) ~> (kmu = t \/ panicked)

\* The two mutexes held together, by the serve goroutine inside Insert.
NestedReached == ~(mu = "serve" /\ kmu = "serve")

\* Insert has panicked inside handlePing, writeMut is still locked, and
\* another goroutine waits for it in a process that has ended.
WaiterOutlived ==
    ~(/\ panicked
      /\ tpc["serve"].loc = "hpIns"
      /\ mu = "serve"
      /\ \E t \in Tasks : WaitsWrite(t))

\* The table of a running engine is the table New built: every Insert
\* ends the process.
TableEmptyWhileRunning == ~panicked => buckets = newKademliaTable
====
